---- MODULE Spec2Model ----
(***************************************************************************)
(* FocusStudy AI (src/app.py): the note-ingestion and prompt-composition   *)
(* pipeline of the Flask view `home`, with the retry loop of               *)
(* gen_with_retry, the PDF text extractor, the image transcriber, the      *)
(* prompt builder and the HTML formatter.                                  *)
(*                                                                         *)
(* Python strings are modelled as sequences of one-character strings, so   *)
(* that strip, join, replace and concatenation are computed character by   *)
(* character, as the code computes them.                                   *)
(***************************************************************************)
EXTENDS Integers, Sequences, FiniteSets, TLC

(***************************************************************************)
(* Bounds of the model.                                                    *)
(***************************************************************************)
\* largest number of pages of an uploaded PDF
MaxPages == 2
\* longest text payload of a generation response that is enumerated
MaxTextLen == 1

(***************************************************************************)
(* Program constants.                                                      *)
(***************************************************************************)
\* gen_with_retry(model, contents, tries: int = 3)
tries == 3
\* time.sleep(2 * (i + 1))
backoff_unit == 2

(***************************************************************************)
(* String literals of the source, character by character.                  *)
(***************************************************************************)
base ==
  <<
    "Y","o","u"," ","a","r","e"," ","F","o","c","u","s","S","t","u","d","y"," ","A","I",","," ",
    "a","n"," ","e","x","a","m","-","f","o","c","u","s","e","d"," ","t","u","t","o","r",".",
    "\n","U","s","e"," ","O","N","L","Y"," ","t","h","e"," ","p","r","o","v","i","d","e","d",
    " ","n","o","t","e","s","."," ","I","f"," ","n","o","t","e","s"," ","d","o"," ","n","o","t",
    " ","c","o","n","t","a","i","n"," ","t","h","e"," ","a","n","s","w","e","r",","," ","s","a",
    "y",":","\n","\"","I"," ","c","a","n","'","t"," ","f","i","n","d"," ","t","h","i","s"," ",
    "i","n"," ","t","h","e"," ","p","r","o","v","i","d","e","d"," ","n","o","t","e","s",".",
    "\""," ","T","h","e","n"," ","g","i","v","e"," ","a"," ","s","h","o","r","t"," ","g","e",
    "n","e","r","a","l"," ","h","i","n","t"," ","(","2","-","3"," ","l","i","n","e","s"," ","m",
    "a","x",")",".","\n","F","o","r","m","a","t"," ","c","l","e","a","n","l","y"," ","u","s",
    "i","n","g"," ","h","e","a","d","i","n","g","s"," ","a","n","d"," ","b","u","l","l","e","t",
    " ","p","o","i","n","t","s",".","\n"
  >>

mode_line_explain ==
  <<
    "M","o","d","e",":"," ","E","X","P","L","A","I","N","."," ","E","x","p","l","a","i","n"," ",
    "s","i","m","p","l","y"," ","a","n","d"," ","g","i","v","e"," ","o","n","e"," ","s","m","a",
    "l","l"," ","e","x","a","m","p","l","e",".","\n"
  >>

mode_line_exam ==
  <<
    "M","o","d","e",":"," ","E","X","A","M"," ","R","E","A","D","Y","."," ","W","r","i","t","e",
    " ","a"," ","s","t","r","u","c","t","u","r","e","d"," ","e","x","a","m"," ","a","n","s","w",
    "e","r"," ","w","i","t","h"," ","h","e","a","d","i","n","g","s"," ","+"," ","k","e","y"," ",
    "p","o","i","n","t","s",".","\n"
  >>

mode_line_revision ==
  <<
    "M","o","d","e",":"," ","R","E","V","I","S","I","O","N","."," ","G","i","v","e"," ","c","r",
    "i","s","p"," ","r","e","v","i","s","i","o","n"," ","b","u","l","l","e","t","s",".","\n"
  >>

mode_line_default ==
  <<
    "M","o","d","e",":"," ","E","X","P","L","A","I","N",".","\n"
  >>

notes_head ==
  <<
    "\n","N","O","T","E","S",":","\n"
  >>

notes_none ==
  <<
    "\n","N","O","T","E","S",":"," ","(","n","o","n","e",")","\n"
  >>

question_head ==
  <<
    "\n","Q","U","E","S","T","I","O","N",":","\n"
  >>

answer_cue ==
  <<
    "\n","\n","A","N","S","W","E","R",":","\n"
  >>

ocr_prompt ==
  <<
    "E","x","t","r","a","c","t"," ","t","h","e"," ","h","a","n","d","w","r","i","t","t","e","n",
    " ","t","e","x","t"," ","c","l","e","a","r","l","y"," ","a","n","d"," ","a","c","c","u","r",
    "a","t","e","l","y","."," ","R","e","t","u","r","n"," ","O","N","L","Y"," ","t","h","e"," ",
    "e","x","t","r","a","c","t","e","d"," ","t","e","x","t","."," ","N","o"," ","e","x","t","r",
    "a"," ","c","o","m","m","e","n","t","a","r","y","."
  >>

msg_question ==
  <<
    "P","l","e","a","s","e"," ","t","y","p","e"," ","y","o","u","r"," ","q","u","e","s","t","i",
    "o","n","."
  >>

msg_scanned ==
  <<
    "T","h","i","s"," ","P","D","F"," ","l","o","o","k","s"," ","s","c","a","n","n","e","d","/",
    "h","a","n","d","w","r","i","t","t","e","n","."," ","P","l","e","a","s","e"," ","u","p","l",
    "o","a","d"," ","c","l","e","a","r"," ","i","m","a","g","e","s"," ","i","n","s","t","e","a",
    "d","."
  >>

msg_ocr_prefix ==
  <<
    "I","m","a","g","e"," ","O","C","R"," ","f","a","i","l","e","d",":"," "
  >>

msg_gemini_prefix ==
  <<
    "G","e","m","i","n","i"," ","e","r","r","o","r",":"," "
  >>

br ==
  <<
    "<","b","r",">"
  >>

brbr ==
  <<
    "<","b","r",">","<","b","r",">"
  >>

(***************************************************************************)
(* Python string helpers.                                                  *)
(***************************************************************************)
\* the characters str.strip() removes
IsSpace(c) == c \in {" ", "\n", "\r", "\t"}

RECURSIVE lstrip(_)
lstrip(s) ==
  IF s = <<>> THEN <<>>
  ELSE IF IsSpace(Head(s)) THEN lstrip(Tail(s)) ELSE s

RECURSIVE rstrip(_)
rstrip(s) ==
  IF s = <<>> THEN <<>>
  ELSE IF IsSpace(s[Len(s)]) THEN rstrip(SubSeq(s, 1, Len(s) - 1)) ELSE s

\* strip left out: the string is used as it came
strip_none(s) == s

\* str.strip()
strip(s) == rstrip(lstrip(s))

\* sep.join(parts)
RECURSIVE join(_, _)
join(sep, parts) ==
  IF parts = <<>> THEN <<>>
  ELSE IF Len(parts) = 1 THEN parts[1]
  ELSE parts[1] \o sep \o join(sep, Tail(parts))

\* does `old` occur in s at position i
MatchAt(s, old, i) ==
  /\ i + Len(old) - 1 <= Len(s)
  /\ \A k \in 1..Len(old) : s[i + k - 1] = old[k]

\* str.replace(old, new) for a non-empty old: leftmost, non-overlapping
RECURSIVE replace_from(_, _, _, _)
replace_from(s, old, new, i) ==
  IF i > Len(s) THEN <<>>
  ELSE IF MatchAt(s, old, i) THEN new \o replace_from(s, old, new, i + Len(old))
  ELSE <<s[i]>> \o replace_from(s, old, new, i + 1)

replace(s, old, new) == replace_from(s, old, new, 1)

\* all strings over alphabet A of length at most n
StrUpTo(A, n) == UNION {[1..k -> A] : k \in 0..n}

(***************************************************************************)
(* extract_pdf_text (lines 24-35).  A PDF upload is                        *)
(*   [open_ok |-> does PyPDF2.PdfReader(pdf_file) succeed,                 *)
(*    pages   |-> per page: [raises, has_text, text], the outcome of       *)
(*                page.extract_text(): an exception, None, or a string].   *)
(* Results are [raised, value]: an exception leaving the function, or the  *)
(* string it returns.                                                      *)
(***************************************************************************)
\* lines 28-32: the loop over reader.pages
RECURSIVE pdf_parts(_)
pdf_parts(pages) ==
  IF pages = <<>> THEN [raised |-> FALSE, parts |-> <<>>]
  ELSE LET page == Head(pages) IN
       IF page.raises THEN [raised |-> TRUE, parts |-> <<>>]
       ELSE LET t    == strip(IF page.has_text THEN page.text ELSE <<>>)
                rest == pdf_parts(Tail(pages))
            IN  IF rest.raised THEN rest
                ELSE [raised |-> FALSE,
                      parts  |-> IF t # <<>> THEN <<t>> \o rest.parts ELSE rest.parts]

\* lines 27-33: the body of the try block
extract_pdf_text_try(pdf_file) ==
  IF ~pdf_file.open_ok THEN [raised |-> TRUE, value |-> <<>>]
  ELSE LET r == pdf_parts(pdf_file.pages) IN
       IF r.raised THEN [raised |-> TRUE, value |-> <<>>]
       ELSE [raised |-> FALSE, value |-> strip(join(<<"\n", "\n">>, r.parts))]

\* the texts of the pages before the first page that fails
RECURSIVE parts_until_failure(_)
parts_until_failure(pages) ==
  IF pages = <<>> \/ Head(pages).raises THEN <<>>
  ELSE LET t == strip(IF Head(pages).has_text THEN Head(pages).text ELSE <<>>) IN
       (IF t # <<>> THEN <<t>> ELSE <<>>) \o parts_until_failure(Tail(pages))

\* extract_pdf_text whose except clause returns what was extracted so far
extract_pdf_text_partial(pdf_file) ==
  IF ~pdf_file.open_ok THEN [raised |-> FALSE, value |-> <<>>]
  ELSE [raised |-> FALSE,
        value  |-> strip(join(<<"\n", "\n">>, parts_until_failure(pdf_file.pages)))]

\* lines 24-35: try ... except Exception: return ""
extract_pdf_text(pdf_file) ==
  LET r == extract_pdf_text_try(pdf_file) IN
  IF r.raised THEN [raised |-> FALSE, value |-> <<>>] ELSE r

(***************************************************************************)
(* build_prompt (lines 38-53).                                             *)
(***************************************************************************)
\* lines 46-50: the dict lookup with its default
mode_line(mode) ==
  CASE mode = "explain"  -> mode_line_explain
    [] mode = "exam"     -> mode_line_exam
    [] mode = "revision" -> mode_line_revision
    [] OTHER             -> mode_line_default

\* notes_block putting the stripped notes into the prompt
notes_block_stripped(notes_text) ==
  IF strip(notes_text) # <<>> THEN notes_head \o strip(notes_text) \o <<"\n">>
  ELSE notes_none

\* line 52
notes_block(notes_text) ==
  IF strip(notes_text) # <<>> THEN notes_head \o notes_text \o <<"\n">>
  ELSE notes_none

\* line 53
build_prompt(mode, question, notes_text) ==
  base \o mode_line(mode) \o notes_block(notes_text)
       \o question_head \o question \o answer_cue

(***************************************************************************)
(* format_html (lines 56-62).                                              *)
(***************************************************************************)
\* format_html without line 59
format_html_no_crlf(text) ==
  IF text = <<>> THEN <<>>
  ELSE replace(replace(text, <<"\n", "\n">>, brbr), <<"\n">>, br)

format_html(text) ==
  IF text = <<>> THEN <<>>
  ELSE LET t1 == replace(text, <<"\r", "\n">>, <<"\n">>)
           t2 == replace(t1, <<"\n", "\n">>, brbr)
       IN  replace(t2, <<"\n">>, br)

(***************************************************************************)
(* State.  Every variable but config maps a request id to that request's   *)
(* own value: home's locals, gen_with_retry's activation record, and the   *)
(* record of what the request did.                                         *)
(***************************************************************************)
VARIABLES
  config,       \* module-level API_KEY, TEXT_MODEL, VISION_MODEL (lines 10-18)
  request,      \* flask `request`: method, form fields, uploaded files
  pc,           \* where the request is in home / gen_with_retry
  mode,         \* home: mode
  question,     \* home: question (stripped)
  notes_text,   \* home: notes_text
  prompt,       \* home: prompt
  answer_html,  \* home: answer_html
  error,        \* home: error
  frame,        \* gen_with_retry: caller, model, contents, i, last_err
  retval,       \* the value a returning gen_with_retry hands to its caller
  exc,          \* the exception being propagated, if any
  observed,     \* outcomes of the external calls of the current gen_with_retry
  trace,        \* the steps the request has taken, in order
  slept,        \* total time the request has spent in time.sleep
  call          \* a direct call of one of the pure functions, with its result

vars == <<config, request, pc, mode, question, notes_text, prompt, answer_html,
          error, frame, retval, exc, observed, trace, slept, call>>

\* request ids; a worker handles one request from start to finish
Requests == {"r1", "r2"}

(***************************************************************************)
(* Inputs.                                                                 *)
(***************************************************************************)
NoField == [present |-> FALSE, value |-> <<>>]

\* request.form["mode"]: absent, one of the three modes, or anything else
ModeFields ==
  {[present |-> FALSE, value |-> ""]} \cup
  {[present |-> TRUE, value |-> m] : m \in {"explain", "exam", "revision", "quiz"}}

\* request.form["question"]: absent, empty, whitespace only, or with text in it
QuestionFields ==
  {NoField} \cup
  {[present |-> TRUE, value |-> s] :
     s \in {<<>>, <<" ">>, <<"\n", " ">>, <<" ", "q", "?", "\n">>}}

\* page.extract_text(): raises, returns None, or returns a string
PageOutcomes ==
  {[raises |-> TRUE, has_text |-> FALSE, text |-> <<>>],
   [raises |-> FALSE, has_text |-> FALSE, text |-> <<>>]} \cup
  {[raises |-> FALSE, has_text |-> TRUE, text |-> s] : s \in {<<" ">>, <<"p">>}}

NoPdf == [present |-> FALSE, filename |-> <<>>, open_ok |-> FALSE, pages |-> <<>>]

\* request.files["pdf"]: absent, an empty file part (no filename), or a file
PdfFiles ==
  {NoPdf, [NoPdf EXCEPT !.present = TRUE],
   [present |-> TRUE, filename |-> <<"f">>, open_ok |-> FALSE, pages |-> <<>>]} \cup
  {[present |-> TRUE, filename |-> <<"f">>, open_ok |-> TRUE, pages |-> ps] :
     ps \in StrUpTo(PageOutcomes, MaxPages)}

NoImage == [present |-> FALSE, filename |-> <<>>, decodable |-> FALSE, err |-> <<>>]

\* request.files["image"]: absent, an empty file part, bytes PIL rejects, or an image
ImageFiles ==
  {NoImage, [NoImage EXCEPT !.present = TRUE],
   [present |-> TRUE, filename |-> <<"g">>, decodable |-> FALSE, err |-> <<"b", "a", "d">>],
   [present |-> TRUE, filename |-> <<"g">>, decodable |-> TRUE, err |-> <<>>]}

GetRequest ==
  [method |-> "GET", form_mode |-> [present |-> FALSE, value |-> ""],
   form_question |-> NoField, pdf |-> NoPdf, image |-> NoImage]

PostRequests ==
  [method : {"POST"}, form_mode : ModeFields, form_question : QuestionFields,
   pdf : PdfFiles, image : ImageFiles]

HttpRequests == {GetRequest} \cup PostRequests

\* messages of the exceptions client.models.generate_content raises
ErrMsgs == {<<>>, <<"E">>}

\* one call of client.models.generate_content: a response, whose text may be
\* missing, or an exception
Outcomes ==
  {[ok |-> TRUE, has_text |-> FALSE, text |-> <<>>, err |-> <<>>]} \cup
  {[ok |-> TRUE, has_text |-> TRUE, text |-> s, err |-> <<>>] :
     s \in StrUpTo({"t", "\n"}, MaxTextLen)} \cup
  {[ok |-> FALSE, has_text |-> FALSE, text |-> <<>>, err |-> e] : e \in ErrMsgs}

NoFrame ==
  [caller |-> "", model |-> "", contents |-> [text |-> <<>>, image |-> FALSE],
   i |-> 0, last_err |-> [set |-> FALSE, msg |-> <<>>]]

NoExc == [raised |-> FALSE, msg |-> <<>>]

\* no pure function has been called directly
NoCall ==
  [fn |-> "", mode |-> "", question |-> <<>>, text |-> <<>>, pdf_file |-> NoPdf,
   raised |-> FALSE, result |-> <<>>]

Event(ev, caller, units) == [ev |-> ev, caller |-> caller, units |-> units]

(***************************************************************************)
(* Init: the module has been imported (lines 10-21) and the requests in    *)
(* `active` have arrived; the others never arrive.                         *)
(***************************************************************************)
InitWith(active, inputs) ==
  /\ config = [API_KEY |-> "key", TEXT_MODEL |-> "gemini-2.5-flash",
               VISION_MODEL |-> "gemini-2.5-flash"]
  /\ request \in [Requests -> inputs]
  /\ \A r \in Requests \ active : request[r] = GetRequest
  /\ pc = [r \in Requests |-> IF r \in active THEN "start" ELSE "idle"]
  /\ mode = [r \in Requests |-> ""]
  /\ question = [r \in Requests |-> <<>>]
  /\ notes_text = [r \in Requests |-> <<>>]
  /\ prompt = [r \in Requests |-> <<>>]
  /\ answer_html = [r \in Requests |-> <<>>]
  /\ error = [r \in Requests |-> <<>>]
  /\ frame = [r \in Requests |-> NoFrame]
  /\ retval = [r \in Requests |-> <<>>]
  /\ exc = [r \in Requests |-> NoExc]
  /\ observed = [r \in Requests |-> <<>>]
  /\ trace = [r \in Requests |-> <<>>]
  /\ slept = [r \in Requests |-> 0]
  /\ call = NoCall

Init == InitWith({"r1"}, HttpRequests)

(***************************************************************************)
(* home (lines 88-130), one action per step.                               *)
(***************************************************************************)
Set(f, r, v) == [f EXCEPT ![r] = v]

Log(r, e) == trace' = [trace EXCEPT ![r] = Append(@, e)]

\* Attached testing the file part alone, not its filename
Attached_ignores_filename(file) == file.present

\* `if pdf and pdf.filename` / `if image and image.filename`
Attached(file) == file.present /\ file.filename # <<>>

\* Handler, had the transcription call been left outside the try block
Handler_ocr_outside_try(site) ==
  CASE site = "answer" -> "except_gen"
    [] OTHER           -> "escaped"

\* the except clause of home that receives an exception raised by the call made
\* for `site`; "escaped" when the call is in no try block of home
Handler(site) ==
  CASE site = "ocr"    -> "except_ocr"     \* lines 114-120
    [] site = "answer" -> "except_gen"     \* lines 124-128
    [] OTHER           -> "escaped"        \* line 107 is in no try block

\* render_template("index.html", answer=answer_html, error=error)
Render(r) == Event("render", "", 0)

\* lines 90-91, 130: a GET renders the empty page
HomeGet(r) ==
  /\ pc[r] = "start"
  /\ request[r].method = "GET"
  /\ answer_html' = Set(answer_html, r, <<>>)
  /\ error' = Set(error, r, <<>>)
  /\ Log(r, Render(r))
  /\ pc' = Set(pc, r, "done")
  /\ UNCHANGED <<call, config, request, mode, question, notes_text, prompt, frame,
                 retval, exc, observed, slept>>

\* lines 90-104: read the form and validate the question
HomeValidate(r) ==
  /\ pc[r] = "start"
  /\ request[r].method = "POST"
  /\ LET m == IF request[r].form_mode.present THEN request[r].form_mode.value
              ELSE "explain"
         q == strip(IF request[r].form_question.present
                    THEN request[r].form_question.value ELSE <<>>)
     IN  /\ mode' = Set(mode, r, m)
         /\ question' = Set(question, r, q)
         /\ answer_html' = Set(answer_html, r, <<>>)
         /\ IF q = <<>>
            THEN /\ error' = Set(error, r, msg_question)
                 /\ Log(r, Render(r))
                 /\ pc' = Set(pc, r, "done")
            ELSE /\ error' = Set(error, r, <<>>)
                 /\ UNCHANGED trace
                 /\ pc' = Set(pc, r, "pdf")
  /\ notes_text' = Set(notes_text, r, <<>>)
  /\ UNCHANGED <<call, config, request, prompt, frame, retval, exc, observed, slept>>

\* HomePdf without the `if not pdf_text` check of lines 108-110
HomePdf_no_check(r) ==
  /\ pc[r] = "pdf"
  /\ IF Attached(request[r].pdf)
     THEN /\ notes_text' = Set(notes_text, r, extract_pdf_text(request[r].pdf).value)
          /\ Log(r, Event("extract", "", 0))
     ELSE UNCHANGED <<notes_text, trace>>
  /\ pc' = Set(pc, r, "image")
  /\ UNCHANGED <<call, config, request, mode, question, prompt, answer_html, error, frame,
                 retval, exc, observed, slept>>

\* lines 106-111: the PDF, if one is attached
HomePdf(r) ==
  /\ pc[r] = "pdf"
  /\ IF Attached(request[r].pdf)
     THEN LET res == extract_pdf_text(request[r].pdf) IN
          IF res.raised
          THEN /\ exc' = Set(exc, r, [raised |-> TRUE, msg |-> <<>>])
               /\ Log(r, Event("extract", "", 0))
               /\ pc' = Set(pc, r, Handler("pdf"))
               /\ UNCHANGED <<error, notes_text>>
          ELSE IF res.value = <<>>
          THEN /\ error' = Set(error, r, msg_scanned)
               /\ trace' = Set(trace, r, trace[r] \o <<Event("extract", "", 0), Render(r)>>)
               /\ pc' = Set(pc, r, "done")
               /\ UNCHANGED <<exc, notes_text>>
          ELSE /\ notes_text' = Set(notes_text, r, res.value)
               /\ Log(r, Event("extract", "", 0))
               /\ pc' = Set(pc, r, "image")
               /\ UNCHANGED <<exc, error>>
     ELSE /\ pc' = Set(pc, r, "image")
          /\ UNCHANGED <<exc, error, notes_text, trace>>
  /\ UNCHANGED <<call, config, request, mode, question, prompt, answer_html, frame,
                 retval, observed, slept>>

\* the call gen_with_retry(model, contents) made for `caller`: line 66
Invoke(r, caller, model, contents) ==
  /\ frame' = Set(frame, r, [caller |-> caller, model |-> model, contents |-> contents,
                             i |-> 0, last_err |-> [set |-> FALSE, msg |-> <<>>]])
  /\ observed' = Set(observed, r, <<>>)
  /\ pc' = Set(pc, r, "gen_call")

\* lines 113-115 and 78-85: the image, if one is attached, is read and decoded and
\* the transcription call starts
HomeImage(r) ==
  /\ pc[r] = "image"
  /\ IF Attached(request[r].image)
     THEN /\ Log(r, Event("decode", "", 0))
          /\ IF request[r].image.decodable
             THEN /\ Invoke(r, "ocr", config.VISION_MODEL,
                            [text |-> ocr_prompt, image |-> TRUE])
                  /\ UNCHANGED exc
             ELSE /\ exc' = Set(exc, r, [raised |-> TRUE, msg |-> request[r].image.err])
                  /\ pc' = Set(pc, r, Handler("ocr"))
                  /\ UNCHANGED <<frame, observed>>
     ELSE /\ pc' = Set(pc, r, "compose")
          /\ UNCHANGED <<exc, frame, observed, trace>>
  /\ UNCHANGED <<call, config, request, mode, question, notes_text, prompt, answer_html,
                 error, retval, slept>>

\* HomeOcrReturn with line 117 replacing the notes by the transcription
HomeOcrReturn_overwrites(r) ==
  /\ pc[r] = "ocr_return"
  /\ LET extracted == strip(retval[r]) IN
     notes_text' = Set(notes_text, r, IF extracted # <<>> THEN extracted ELSE notes_text[r])
  /\ pc' = Set(pc, r, "compose")
  /\ UNCHANGED <<call, config, request, mode, question, prompt, answer_html, error, frame,
                 retval, exc, observed, trace, slept>>

\* HomeOcrReturn that treats an empty transcription like an empty document
HomeOcrReturn_empty_is_error(r) ==
  /\ pc[r] = "ocr_return"
  /\ LET extracted == strip(retval[r]) IN
     IF extracted = <<>>
     THEN /\ error' = Set(error, r, msg_scanned)
          /\ pc' = Set(pc, r, "done")
          /\ UNCHANGED notes_text
     ELSE /\ notes_text' = Set(notes_text, r,
               IF notes_text[r] # <<>>
               THEN strip(notes_text[r] \o <<"\n", "\n">> \o extracted)
               ELSE extracted)
          /\ pc' = Set(pc, r, "compose")
          /\ UNCHANGED error
  /\ UNCHANGED <<call, config, request, mode, question, prompt, answer_html, frame,
                 retval, exc, observed, trace, slept>>

\* line 85 and lines 116-117: the transcription returned
HomeOcrReturn(r) ==
  /\ pc[r] = "ocr_return"
  /\ LET extracted == strip(retval[r]) IN
     notes_text' = Set(notes_text, r,
       IF extracted # <<>>
       THEN IF notes_text[r] # <<>>
            THEN strip(notes_text[r] \o <<"\n", "\n">> \o extracted)
            ELSE extracted
       ELSE notes_text[r])
  /\ pc' = Set(pc, r, "compose")
  /\ UNCHANGED <<call, config, request, mode, question, prompt, answer_html, error, frame,
                 retval, exc, observed, trace, slept>>

\* HomeExceptOcr without the return of line 120: home goes on to line 122
HomeExceptOcr_no_return(r) ==
  /\ pc[r] = "except_ocr"
  /\ error' = Set(error, r, msg_ocr_prefix \o exc[r].msg)
  /\ exc' = Set(exc, r, NoExc)
  /\ pc' = Set(pc, r, "compose")
  /\ UNCHANGED <<call, config, request, mode, question, notes_text, prompt, answer_html,
                 frame, retval, observed, trace, slept>>

\* lines 118-120: except Exception as e around the transcription
HomeExceptOcr(r) ==
  /\ pc[r] = "except_ocr"
  /\ error' = Set(error, r, msg_ocr_prefix \o exc[r].msg)
  /\ exc' = Set(exc, r, NoExc)
  /\ Log(r, Render(r))
  /\ pc' = Set(pc, r, "done")
  /\ UNCHANGED <<call, config, request, mode, question, notes_text, prompt, answer_html,
                 frame, retval, observed, slept>>

\* lines 122 and 125: build the prompt and start the answer call
HomeCompose(r) ==
  /\ pc[r] = "compose"
  /\ LET p == build_prompt(mode[r], question[r], notes_text[r]) IN
     /\ prompt' = Set(prompt, r, p)
     /\ Invoke(r, "answer", config.TEXT_MODEL, [text |-> p, image |-> FALSE])
  /\ Log(r, Event("compose", "", 0))
  /\ UNCHANGED <<call, config, request, mode, question, notes_text, answer_html, error,
                 retval, exc, slept>>

\* lines 125-126, 130: the answer returned; format and render it
HomeAnswerReturn(r) ==
  /\ pc[r] = "answer_return"
  /\ answer_html' = Set(answer_html, r, format_html(retval[r]))
  /\ trace' = Set(trace, r, trace[r] \o <<Event("format", "", 0), Render(r)>>)
  /\ pc' = Set(pc, r, "done")
  /\ UNCHANGED <<call, config, request, mode, question, notes_text, prompt, error, frame,
                 retval, exc, observed, slept>>

\* HomeExceptGen that shows the failure as a formatted answer
HomeExceptGen_formats(r) ==
  /\ pc[r] = "except_gen"
  /\ answer_html' = Set(answer_html, r, format_html(msg_gemini_prefix \o exc[r].msg))
  /\ exc' = Set(exc, r, NoExc)
  /\ trace' = Set(trace, r, trace[r] \o <<Event("format", "", 0), Render(r)>>)
  /\ pc' = Set(pc, r, "done")
  /\ UNCHANGED <<call, config, request, mode, question, notes_text, prompt, error,
                 frame, retval, observed, slept>>

\* lines 127-128, 130: except Exception as e around the answer call
HomeExceptGen(r) ==
  /\ pc[r] = "except_gen"
  /\ error' = Set(error, r, msg_gemini_prefix \o exc[r].msg)
  /\ exc' = Set(exc, r, NoExc)
  /\ Log(r, Render(r))
  /\ pc' = Set(pc, r, "done")
  /\ UNCHANGED <<call, config, request, mode, question, notes_text, prompt, answer_html,
                 frame, retval, observed, slept>>

(***************************************************************************)
(* gen_with_retry (lines 65-74).                                           *)
(***************************************************************************)
\* where gen_with_retry returns to
ReturnLabel(caller) == IF caller = "ocr" THEN "ocr_return" ELSE "answer_return"

\* `getattr(resp, "text", "") or ""`
ResponseText(out) == IF out.has_text THEN out.text ELSE <<>>

\* GenCall with line 72 keeping the first exception instead of the last
GenCall_keeps_first_err(r) ==
  /\ pc[r] = "gen_call"
  /\ frame[r].i < tries
  /\ \E out \in Outcomes :
       /\ observed' = Set(observed, r, Append(observed[r], out))
       /\ IF out.ok
          THEN /\ retval' = Set(retval, r, ResponseText(out))
               /\ pc' = Set(pc, r, ReturnLabel(frame[r].caller))
               /\ UNCHANGED frame
          ELSE /\ frame' = Set(frame, r,
                               IF frame[r].last_err.set THEN frame[r]
                               ELSE [frame[r] EXCEPT !.last_err = [set |-> TRUE, msg |-> out.err]])
               /\ pc' = Set(pc, r, "gen_sleep")
               /\ UNCHANGED retval
  /\ Log(r, Event("generate", frame[r].caller, 0))
  /\ UNCHANGED <<call, config, request, mode, question, notes_text, prompt, answer_html,
                 error, exc, slept>>

\* GenCall treating a response without text as a failed attempt
GenCall_empty_is_failure(r) ==
  /\ pc[r] = "gen_call"
  /\ frame[r].i < tries
  /\ \E out \in Outcomes :
       /\ observed' = Set(observed, r, Append(observed[r], out))
       /\ IF out.ok /\ ResponseText(out) # <<>>
          THEN /\ retval' = Set(retval, r, ResponseText(out))
               /\ pc' = Set(pc, r, ReturnLabel(frame[r].caller))
               /\ UNCHANGED frame
          ELSE /\ frame' = Set(frame, r,
                               [frame[r] EXCEPT !.last_err = [set |-> TRUE, msg |-> out.err]])
               /\ pc' = Set(pc, r, "gen_sleep")
               /\ UNCHANGED retval
  /\ Log(r, Event("generate", frame[r].caller, 0))
  /\ UNCHANGED <<call, config, request, mode, question, notes_text, prompt, answer_html,
                 error, exc, slept>>

\* GenCall with last_err kept in a module-level variable that all requests share
GenCall_shared_last_err(r) ==
  /\ pc[r] = "gen_call"
  /\ frame[r].i < tries
  /\ \E out \in Outcomes :
       /\ observed' = Set(observed, r, Append(observed[r], out))
       /\ IF out.ok
          THEN /\ retval' = Set(retval, r, ResponseText(out))
               /\ pc' = Set(pc, r, ReturnLabel(frame[r].caller))
               /\ UNCHANGED frame
          ELSE /\ frame' = [s \in Requests |->
                              [frame[s] EXCEPT !.last_err = [set |-> TRUE, msg |-> out.err]]]
               /\ pc' = Set(pc, r, "gen_sleep")
               /\ UNCHANGED retval
  /\ Log(r, Event("generate", frame[r].caller, 0))
  /\ UNCHANGED <<call, config, request, mode, question, notes_text, prompt, answer_html,
                 error, exc, slept>>

\* lines 68-72: one attempt of client.models.generate_content
GenCall(r) ==
  /\ pc[r] = "gen_call"
  /\ frame[r].i < tries
  /\ \E out \in Outcomes :
       /\ observed' = Set(observed, r, Append(observed[r], out))
       /\ IF out.ok
          THEN /\ retval' = Set(retval, r, ResponseText(out))
               /\ pc' = Set(pc, r, ReturnLabel(frame[r].caller))
               /\ UNCHANGED frame
          ELSE /\ frame' = Set(frame, r,
                               [frame[r] EXCEPT !.last_err = [set |-> TRUE, msg |-> out.err]])
               /\ pc' = Set(pc, r, "gen_sleep")
               /\ UNCHANGED retval
  /\ Log(r, Event("generate", frame[r].caller, 0))
  /\ UNCHANGED <<call, config, request, mode, question, notes_text, prompt, answer_html,
                 error, exc, slept>>

\* Backoff doubling instead of growing linearly
Backoff_exponential(i) == 2 ^ (i + 1)

\* line 73: the wait after a failed attempt
Backoff(i) == backoff_unit * (i + 1)

\* GenSleep that does not wait after the last attempt
GenSleep_skips_last(r) ==
  /\ pc[r] = "gen_sleep"
  /\ IF frame[r].i + 1 < tries
     THEN /\ slept' = Set(slept, r, slept[r] + Backoff(frame[r].i))
          /\ Log(r, Event("sleep", frame[r].caller, Backoff(frame[r].i)))
     ELSE UNCHANGED <<slept, trace>>
  /\ frame' = Set(frame, r, [frame[r] EXCEPT !.i = @ + 1])
  /\ pc' = Set(pc, r, IF frame[r].i + 1 < tries THEN "gen_call" ELSE "gen_raise")
  /\ UNCHANGED <<call, config, request, mode, question, notes_text, prompt, answer_html,
                 error, retval, exc, observed>>

\* line 73, then the loop head of line 67
GenSleep(r) ==
  /\ pc[r] = "gen_sleep"
  /\ slept' = Set(slept, r, slept[r] + Backoff(frame[r].i))
  /\ Log(r, Event("sleep", frame[r].caller, Backoff(frame[r].i)))
  /\ frame' = Set(frame, r, [frame[r] EXCEPT !.i = @ + 1])
  /\ pc' = Set(pc, r, IF frame[r].i + 1 < tries THEN "gen_call" ELSE "gen_raise")
  /\ UNCHANGED <<call, config, request, mode, question, notes_text, prompt, answer_html,
                 error, retval, exc, observed>>

\* gen_with_retry ending with `return ""` instead of `raise last_err`
GenRaise_returns_empty(r) ==
  /\ pc[r] = "gen_raise"
  /\ retval' = Set(retval, r, <<>>)
  /\ pc' = Set(pc, r, ReturnLabel(frame[r].caller))
  /\ UNCHANGED <<call, config, request, mode, question, notes_text, prompt, answer_html,
                 error, frame, exc, observed, trace, slept>>

\* gen_with_retry that starts its loop again instead of raising
GenRaise_retries(r) ==
  /\ pc[r] = "gen_raise"
  /\ frame' = Set(frame, r, [frame[r] EXCEPT !.i = 0])
  /\ pc' = Set(pc, r, "gen_call")
  /\ UNCHANGED <<call, config, request, mode, question, notes_text, prompt, answer_html,
                 error, retval, exc, observed, trace, slept>>

\* line 74: raise last_err, which unwinds to the caller's except clause
GenRaise(r) ==
  /\ pc[r] = "gen_raise"
  /\ exc' = Set(exc, r, [raised |-> TRUE, msg |-> frame[r].last_err.msg])
  /\ pc' = Set(pc, r, Handler(frame[r].caller))
  /\ UNCHANGED <<call, config, request, mode, question, notes_text, prompt, answer_html,
                 error, frame, retval, observed, trace, slept>>

(***************************************************************************)
(* The specification.                                                      *)
(***************************************************************************)
Step(r) ==
  \/ HomeGet(r)
  \/ HomeValidate(r)
  \/ HomePdf(r)
  \/ HomeImage(r)
  \/ HomeOcrReturn(r)
  \/ HomeExceptOcr(r)
  \/ HomeCompose(r)
  \/ HomeAnswerReturn(r)
  \/ HomeExceptGen(r)
  \/ GenCall(r)
  \/ GenSleep(r)
  \/ GenRaise(r)

Next == \E r \in Requests : Step(r)

Spec == Init /\ [][Next]_vars

\* every external call returns or fails and the worker keeps running: a request
\* that can take a step eventually takes one
FairRequests ==
  {GetRequest} \cup
  [method : {"POST"}, form_mode : {[present |-> TRUE, value |-> "exam"]},
   form_question : {NoField, [present |-> TRUE, value |-> <<" ", "q", "?", "\n">>]},
   pdf : {f \in PdfFiles : Len(f.pages) <= 1}, image : ImageFiles]

InitFair == InitWith({"r1"}, FairRequests)

SpecFair == InitFair /\ [][Next]_vars /\ \A r \in Requests : WF_vars(Step(r))

(***************************************************************************)
(* Two requests handled at the same time, by two workers whose steps       *)
(* interleave in any order.                                                *)
(***************************************************************************)
OnePagePdf ==
  [present |-> TRUE, filename |-> <<"f">>, open_ok |-> TRUE,
   pages |-> <<[raises |-> FALSE, has_text |-> TRUE, text |-> <<"p">>]>>]

DecodableImage ==
  [present |-> TRUE, filename |-> <<"g">>, decodable |-> TRUE, err |-> <<>>]

\* the first request: a question with a document and an image
ConcFirst ==
  [method : {"POST"}, form_mode : {[present |-> TRUE, value |-> "exam"]},
   form_question : {[present |-> TRUE, value |-> <<"q">>]},
   pdf : {OnePagePdf}, image : {DecodableImage}]

\* the second request: a GET, or another question with a document and no image
ConcSecond ==
  {GetRequest} \cup
  [method : {"POST"}, form_mode : {[present |-> TRUE, value |-> "quiz"]},
   form_question : {[present |-> TRUE, value |-> <<" ", "q", "?", "\n">>]},
   pdf : {OnePagePdf}, image : {NoImage}]

InitConc ==
  /\ InitWith(Requests, ConcFirst \cup ConcSecond)
  /\ request["r1"] \in ConcFirst
  /\ request["r2"] \in ConcSecond

SpecConc == InitConc /\ [][Next]_vars

(***************************************************************************)
(* The pure functions called directly, on arguments of their whole domain  *)
(* and not only on those home hands them.                                  *)
(***************************************************************************)
\* longest notes_text handed to build_prompt
MaxNotesLen == 2
\* longest text handed to format_html
MaxFmtLen == 4
\* longest text of a page of a PDF handed to extract_pdf_text
MaxPageLen == 2

\* mode values: the three modes the source names, and others
CallModes == {"explain", "exam", "revision", "quiz", ""}

CallQuestions == {<<"q">>, <<"q", " ", "r", "?">>}

\* lines 38-53
CallBuildPrompt ==
  /\ call.fn = ""
  /\ \E m \in CallModes, q \in CallQuestions, n \in StrUpTo({"n", " ", "\n"}, MaxNotesLen) :
       call' = [NoCall EXCEPT !.fn = "build_prompt", !.mode = m, !.question = q,
                              !.text = n, !.result = build_prompt(m, q, n)]
  /\ UNCHANGED <<config, request, pc, mode, question, notes_text, prompt, answer_html,
                 error, frame, retval, exc, observed, trace, slept>>

\* lines 56-62
CallFormatHtml ==
  /\ call.fn = ""
  /\ \E t \in StrUpTo({"a", "\n", "\r"}, MaxFmtLen) :
       call' = [NoCall EXCEPT !.fn = "format_html", !.text = t, !.result = format_html(t)]
  /\ UNCHANGED <<config, request, pc, mode, question, notes_text, prompt, answer_html,
                 error, frame, retval, exc, observed, trace, slept>>

\* page.extract_text() with longer texts: raises, None, or a string
CallPageOutcomes ==
  {[raises |-> TRUE, has_text |-> FALSE, text |-> <<>>],
   [raises |-> FALSE, has_text |-> FALSE, text |-> <<>>]} \cup
  {[raises |-> FALSE, has_text |-> TRUE, text |-> s] : s \in StrUpTo({"p", " "}, MaxPageLen)}

CallPdfFiles ==
  {[present |-> TRUE, filename |-> <<"f">>, open_ok |-> FALSE, pages |-> <<>>]} \cup
  {[present |-> TRUE, filename |-> <<"f">>, open_ok |-> TRUE, pages |-> ps] :
     ps \in StrUpTo(CallPageOutcomes, MaxPages)}

\* lines 24-35
CallExtractPdfText ==
  /\ call.fn = ""
  /\ \E f \in CallPdfFiles :
       LET res == extract_pdf_text(f) IN
       call' = [NoCall EXCEPT !.fn = "extract_pdf_text", !.pdf_file = f,
                              !.raised = res.raised, !.result = res.value]
  /\ UNCHANGED <<config, request, pc, mode, question, notes_text, prompt, answer_html,
                 error, frame, retval, exc, observed, trace, slept>>

NextPure == CallBuildPrompt \/ CallFormatHtml \/ CallExtractPdfText

\* no request is being handled
InitPure == InitWith({}, {GetRequest})

SpecPure == InitPure /\ [][NextPure]_vars

(***************************************************************************)
(* Vocabulary of the properties.                                           *)
(***************************************************************************)
\* empty, or made of whitespace only
Blank(s) == \A k \in 1..Len(s) : IsSpace(s[k])

\* the raw `question` form field; an absent field counts as empty
RawQuestion(r) ==
  IF request[r].form_question.present THEN request[r].form_question.value ELSE <<>>

IsPost(r) == pc[r] # "idle" /\ request[r].method = "POST"

\* how many events of kind ev, made for caller, the request has logged
RECURSIVE CountIn(_, _, _)
CountIn(tr, ev, caller) ==
  IF tr = <<>> THEN 0
  ELSE (IF Head(tr).ev = ev /\ Head(tr).caller = caller THEN 1 ELSE 0)
       + CountIn(Tail(tr), ev, caller)

ExtractCalls(r) == CountIn(trace[r], "extract", "")
DecodeCalls(r) == CountIn(trace[r], "decode", "")
ComposeCalls(r) == CountIn(trace[r], "compose", "")
FormatCalls(r) == CountIn(trace[r], "format", "")
GenCalls(r, caller) == CountIn(trace[r], "generate", caller)
Sleeps(r, caller) == CountIn(trace[r], "sleep", caller)

\* the waits made for caller, in order
RECURSIVE SleepUnits(_, _)
SleepUnits(tr, caller) ==
  IF tr = <<>> THEN <<>>
  ELSE (IF Head(tr).ev = "sleep" /\ Head(tr).caller = caller
        THEN <<Head(tr).units>> ELSE <<>>) \o SleepUnits(Tail(tr), caller)

RECURSIVE Sum(_)
Sum(s) == IF s = <<>> THEN 0 ELSE Head(s) + Sum(Tail(s))

StartsWith(s, p) == Len(p) <= Len(s) /\ SubSeq(s, 1, Len(p)) = p

\* the document has no text to extract: it cannot be opened, a page fails, or
\* every page is empty or whitespace
Unreadable(pdf_file) ==
  \/ ~pdf_file.open_ok
  \/ \E k \in 1..Len(pdf_file.pages) : pdf_file.pages[k].raises
  \/ \A k \in 1..Len(pdf_file.pages) :
       ~pdf_file.pages[k].has_text \/ Blank(pdf_file.pages[k].text)

AllFail(obs) == \A k \in 1..Len(obs) : ~obs[k].ok

FirstSuccessLast(obs) ==
  /\ Len(obs) >= 1
  /\ obs[Len(obs)].ok
  /\ \A k \in 1..(Len(obs) - 1) : ~obs[k].ok

(***************************************************************************)
(* C1.  A POST whose question is empty or whitespace-only ends in the      *)
(* validation error, with a non-empty error and an empty answer, and makes *)
(* no call to the extractor, the image transcriber or the generation       *)
(* capability, whatever the mode and the attachments.                      *)
(***************************************************************************)
C1_BlankQuestionRejected ==
  \A r \in Requests :
    (IsPost(r) /\ pc[r] # "start" /\ Blank(RawQuestion(r))) =>
      /\ pc[r] = "done"
      /\ error[r] = msg_question
      /\ error[r] # <<>>
      /\ answer_html[r] = <<>>
      /\ ExtractCalls(r) = 0
      /\ DecodeCalls(r) = 0
      /\ GenCalls(r, "ocr") = 0
      /\ GenCalls(r, "answer") = 0

\* a whitespace-only question sent with a readable PDF and an image has been handled
C1_Witness ==
  \E r \in Requests :
    /\ IsPost(r) /\ pc[r] = "done"
    /\ RawQuestion(r) # <<>> /\ Blank(RawQuestion(r))
    /\ Attached(request[r].pdf) /\ ~Unreadable(request[r].pdf)
    /\ Attached(request[r].image) /\ request[r].image.decodable

(***************************************************************************)
(* C2.  One invocation of gen_with_retry with tries = 3: when every        *)
(* attempt fails the external call is made exactly 3 times and the         *)
(* exception raised is the one of the 3rd attempt; when the first success  *)
(* is on attempt k, the call is made exactly k times and the text returned *)
(* is that of attempt k.                                                   *)
(***************************************************************************)
C2_RetryOutcome ==
  \A r \in Requests :
    LET obs == observed[r]
        n   == Len(obs)
    IN  /\ pc[r] \in {"ocr_return", "answer_return"} =>
             /\ n \in 1..3
             /\ FirstSuccessLast(obs)
             /\ obs[n].has_text => retval[r] = obs[n].text
             /\ GenCalls(r, frame[r].caller) = n
        /\ (pc[r] \in {"except_ocr", "except_gen"} /\ frame[r].caller # "") =>
             /\ n = 3
             /\ AllFail(obs)
             /\ exc[r].raised /\ exc[r].msg = obs[3].err
             /\ GenCalls(r, frame[r].caller) = 3
        \* once the invocation is over, no further external call is made for it
        /\ (pc[r] = "done" /\ frame[r].caller # "") =>
             /\ GenCalls(r, frame[r].caller) = n
             /\ AllFail(obs) \/ FirstSuccessLast(obs)
             /\ AllFail(obs) => n = 3

\* three failed attempts, the first and the last with different messages, and
\* the exception has reached the caller
C2_Witness ==
  \E r \in Requests :
    /\ pc[r] = "except_gen"
    /\ Len(observed[r]) = 3 /\ AllFail(observed[r])
    /\ observed[r][1].err # observed[r][3].err
    /\ observed[r][2].err # observed[r][3].err

(***************************************************************************)
(* The failures of a request, read from its inputs and from what it did.   *)
(***************************************************************************)
ValidationFailed(r) == Blank(RawQuestion(r))

DocumentFailed(r) == Attached(request[r].pdf) /\ Unreadable(request[r].pdf)

\* the image could not be read or decoded
DecodeFailed(r) == DecodeCalls(r) = 1 /\ ~request[r].image.decodable

\* the call made for caller has failed on all its attempts and waited after each
Exhausted(r, caller) == Sleeps(r, caller) = tries

TranscriptionFailed(r) == DecodeFailed(r) \/ Exhausted(r, "ocr")

(***************************************************************************)
(* C3.  A finished request reports at most one error, the first failure in *)
(* pipeline order (validation, document, image, generation); the steps     *)
(* after the first failure are skipped; an answer and an error are never   *)
(* shown together.                                                         *)
(***************************************************************************)
C3_FirstFailureOnly ==
  \A r \in Requests :
    (IsPost(r) /\ pc[r] = "done") =>
      /\ ~(answer_html[r] # <<>> /\ error[r] # <<>>)
      /\ CASE ValidationFailed(r) ->
                /\ error[r] = msg_question
                /\ ExtractCalls(r) = 0 /\ DecodeCalls(r) = 0 /\ GenCalls(r, "ocr") = 0
                /\ ComposeCalls(r) = 0 /\ GenCalls(r, "answer") = 0 /\ FormatCalls(r) = 0
           [] ~ValidationFailed(r) /\ DocumentFailed(r) ->
                /\ error[r] = msg_scanned
                /\ DecodeCalls(r) = 0 /\ GenCalls(r, "ocr") = 0
                /\ ComposeCalls(r) = 0 /\ GenCalls(r, "answer") = 0 /\ FormatCalls(r) = 0
           [] ~ValidationFailed(r) /\ ~DocumentFailed(r) /\ TranscriptionFailed(r) ->
                /\ StartsWith(error[r], msg_ocr_prefix)
                /\ ComposeCalls(r) = 0 /\ GenCalls(r, "answer") = 0 /\ FormatCalls(r) = 0
           [] ~ValidationFailed(r) /\ ~DocumentFailed(r) /\ ~TranscriptionFailed(r)
              /\ Exhausted(r, "answer") ->
                /\ StartsWith(error[r], msg_gemini_prefix)
                /\ FormatCalls(r) = 0
           [] OTHER ->
                /\ error[r] = <<>>
                /\ FormatCalls(r) = 1

\* a finished request whose document was unreadable and whose image could not
\* have been decoded either: only the document failure is reported
C3_Witness ==
  \E r \in Requests :
    /\ IsPost(r) /\ pc[r] = "done"
    /\ ~ValidationFailed(r) /\ DocumentFailed(r)
    /\ Attached(request[r].image) /\ ~request[r].image.decodable
    /\ error[r] = msg_scanned

(***************************************************************************)
(* C4.  A request with a non-blank question and an attached document with  *)
(* no extractable text ends in the unreadable-document error; neither the  *)
(* generation capability nor the image transcriber is called, also when an *)
(* image is attached.                                                      *)
(***************************************************************************)
C4_UnreadableDocument ==
  \A r \in Requests :
    (IsPost(r) /\ pc[r] \notin {"start", "pdf"}
       /\ ~Blank(RawQuestion(r)) /\ DocumentFailed(r)) =>
      /\ pc[r] = "done"
      /\ error[r] = msg_scanned
      /\ answer_html[r] = <<>>
      /\ ExtractCalls(r) = 1
      /\ DecodeCalls(r) = 0
      /\ GenCalls(r, "ocr") = 0
      /\ GenCalls(r, "answer") = 0

\* the rejected document had two whitespace or empty pages, and an image came with it
C4_Witness ==
  \E r \in Requests :
    /\ IsPost(r) /\ pc[r] = "done" /\ ~Blank(RawQuestion(r))
    /\ Attached(request[r].pdf) /\ request[r].pdf.open_ok
    /\ Len(request[r].pdf.pages) = 2
    /\ \A k \in 1..2 : ~request[r].pdf.pages[k].raises
    /\ request[r].pdf.pages[1].has_text
    /\ Unreadable(request[r].pdf)
    /\ Attached(request[r].image) /\ request[r].image.decodable
    /\ error[r] = msg_scanned

(***************************************************************************)
(* C5.  As claimed: a request spends at most 2+4+6 = 12 time units in the  *)
(* backoff waits of gen_with_retry, whatever its attachments.              *)
(***************************************************************************)
C5_RequestWaitsAtMost12 == \A r \in Requests : slept[r] <= 12

(***************************************************************************)
(* C5, amended.  Each invocation of gen_with_retry waits at most 12 units. *)
(* A request without a transcription call waits at most 12 units in all; a *)
(* request with one waits at most 18: up to 2+4 = 6 for a transcription    *)
(* that succeeds, then up to 12 for the answer call, or 12 for a           *)
(* transcription that fails, after which no answer call is made.           *)
(***************************************************************************)
C5_WaitsPerCallAndRequest ==
  \A r \in Requests :
    /\ Sum(SleepUnits(trace[r], "ocr")) <= 12
    /\ Sum(SleepUnits(trace[r], "answer")) <= 12
    /\ slept[r] = Sum(SleepUnits(trace[r], "ocr")) + Sum(SleepUnits(trace[r], "answer"))
    /\ GenCalls(r, "ocr") = 0 => slept[r] <= 12
    /\ slept[r] <= 18
    /\ GenCalls(r, "answer") > 0 => Sum(SleepUnits(trace[r], "ocr")) <= 6

\* the transcription succeeded on its third attempt and the answer call failed
\* three times: 18 units
C5_Witness ==
  \E r \in Requests :
    /\ pc[r] = "done"
    /\ slept[r] = 18
    /\ Sleeps(r, "ocr") = 2 /\ Sleeps(r, "answer") = 3

(***************************************************************************)
(* C6.  As claimed: for a mode outside {explain, exam, revision} the       *)
(* prompt built is the prompt build_prompt gives for mode "explain" with   *)
(* the same question and notes.                                            *)
(***************************************************************************)
KnownModes == {"explain", "exam", "revision"}

C6_UnknownModeIsExplain ==
  \A r \in Requests :
    (ComposeCalls(r) = 1 /\ mode[r] \notin KnownModes) =>
      prompt[r] = build_prompt("explain", question[r], notes_text[r])

(***************************************************************************)
(* C7.  No failure of a collaborator leaves home: an exception in flight   *)
(* is always on its way to one of home's except clauses, and a finished    *)
(* request has rendered either an answer or an error string.               *)
(***************************************************************************)
C7_NothingEscapes ==
  \A r \in Requests :
    /\ pc[r] # "escaped"
    /\ exc[r].raised => pc[r] \in {"except_ocr", "except_gen"}
    /\ pc[r] = "done" =>
         /\ ~exc[r].raised
         /\ trace[r][Len(trace[r])].ev = "render"
         /\ (DocumentFailed(r) \/ TranscriptionFailed(r) \/ Exhausted(r, "answer"))
              => error[r] # <<>>

\* a finished request whose transcription needed a retry and whose answer call
\* failed on every attempt
C7_Witness ==
  \E r \in Requests :
    /\ pc[r] = "done"
    /\ Attached(request[r].pdf)
    /\ Sleeps(r, "ocr") >= 1
    /\ Exhausted(r, "answer")
    /\ StartsWith(error[r], msg_gemini_prefix)

(***************************************************************************)
(* C8.  The notes handed to build_prompt are the document text alone, the  *)
(* transcribed text alone, the document text then a blank line then the    *)
(* transcribed text, or the empty string, according to which of the two    *)
(* contributed text; and the prompt is built from these notes.             *)
(***************************************************************************)
\* the text of the attached document, if any
DocumentText(r) ==
  IF Attached(request[r].pdf) THEN extract_pdf_text(request[r].pdf).value ELSE <<>>

\* the text the transcription returned, if an image was transcribed; read where the
\* transcription has just returned and the answer call has not started
TranscribedText(r) ==
  IF GenCalls(r, "ocr") > 0 THEN strip(ResponseText(observed[r][Len(observed[r])]))
  ELSE <<>>

C8_NotesComposition ==
  \A r \in Requests :
    /\ pc[r] = "compose" =>
         LET doc == DocumentText(r)
             img == TranscribedText(r)
         IN  notes_text[r] =
               CASE doc # <<>> /\ img = <<>> -> doc
                 [] doc = <<>> /\ img # <<>> -> img
                 [] doc # <<>> /\ img # <<>> -> doc \o <<"\n", "\n">> \o img
                 [] OTHER -> <<>>
    /\ ComposeCalls(r) = 1 =>
         /\ prompt[r] = build_prompt(mode[r], question[r], notes_text[r])
         /\ frame[r].caller = "answer" /\ frame[r].contents.text = prompt[r]

\* both a two-page document and an image contributed text
C8_Witness ==
  \E r \in Requests :
    /\ pc[r] = "compose"
    /\ Len(DocumentText(r)) > 1
    /\ TranscribedText(r) # <<>>

(***************************************************************************)
(* C9.  When the transcription of an attached image fails, by a read or    *)
(* decode failure or by three failed generation attempts, the failure is   *)
(* raised to home, the request ends with an error that wraps the failure   *)
(* message, and neither build_prompt nor the answer call is invoked.       *)
(***************************************************************************)
\* the message of the failure of the transcription
TranscriptionFailure(r) ==
  IF DecodeFailed(r) THEN request[r].image.err ELSE observed[r][tries].err

C9_TranscriptionFailure ==
  \A r \in Requests :
    (TranscriptionFailed(r) /\ pc[r] # "gen_raise") =>
      /\ pc[r] \in {"except_ocr", "done"}
      /\ pc[r] = "except_ocr" =>
           exc[r].raised /\ exc[r].msg = TranscriptionFailure(r)
      /\ pc[r] = "done" =>
           /\ error[r] = msg_ocr_prefix \o TranscriptionFailure(r)
           /\ answer_html[r] = <<>>
      /\ ComposeCalls(r) = 0
      /\ GenCalls(r, "answer") = 0
      /\ prompt[r] = <<>>

\* a request with a readable document whose transcription failed three times, the
\* last time with a non-empty message
C9_Witness ==
  \E r \in Requests :
    /\ pc[r] = "done"
    /\ Attached(request[r].pdf)
    /\ Exhausted(r, "ocr")
    /\ observed[r][tries].err # <<>>

(***************************************************************************)
(* C10.  Within one invocation of gen_with_retry the wait after the n-th   *)
(* failed attempt is 2*n units, whatever the failure; a call that succeeds *)
(* on attempt k has waited 2+...+2(k-1) units and a call that fails three  *)
(* times has waited 12 units when its exception is raised.                 *)
(***************************************************************************)
Failures(obs) == Cardinality({k \in 1..Len(obs) : ~obs[k].ok})

C10_LinearBackoff ==
  \A r \in Requests :
    frame[r].caller # "" =>
      LET waits == SleepUnits(trace[r], frame[r].caller)
          k     == Len(observed[r])
      IN  /\ \A n \in 1..Len(waits) : waits[n] = 2 * n
          \* every failed attempt has been followed by its wait, except the one
          \* whose wait is about to start
          /\ Len(waits) = Failures(observed[r]) - (IF pc[r] = "gen_sleep" THEN 1 ELSE 0)
          /\ pc[r] \in {"ocr_return", "answer_return"} => Sum(waits) = k * (k - 1)
          /\ pc[r] = "gen_raise" => Sum(waits) = 12
          /\ (pc[r] \in {"except_ocr", "except_gen"}) => Sum(waits) = 12

\* three attempts failed with differing messages, 2, 4 and 6 units were waited,
\* and the exception is about to be raised
C10_Witness ==
  \E r \in Requests :
    /\ pc[r] = "gen_raise"
    /\ SleepUnits(trace[r], frame[r].caller) = <<2, 4, 6>>
    /\ observed[r][1].err # observed[r][2].err

(***************************************************************************)
(* C11.  The prompt is the constant preamble, then the instruction line of *)
(* the mode, then the notes block, then the question followed by the       *)
(* "ANSWER:" cue; the notes block is the "(none)" placeholder exactly when *)
(* the notes are empty or whitespace-only, and otherwise holds the whole   *)
(* notes text unchanged.                                                   *)
(***************************************************************************)
ModeLines == {mode_line_explain, mode_line_exam, mode_line_revision, mode_line_default}

\* s is a \o b \o c \o d for some b of B
SplitsAs(s, a, B, c, d) == \E b \in B : s = a \o b \o c \o d

\* does p occur in s
Contains(s, p) == \E i \in 1..(Len(s) - Len(p) + 1) : MatchAt(s, p, i)

C11_PromptSections ==
  call.fn = "build_prompt" =>
    LET block == IF Blank(call.text) THEN notes_none
                 ELSE notes_head \o call.text \o <<"\n">>
        tail  == question_head \o call.question \o answer_cue
    IN  /\ SplitsAs(call.result, base, ModeLines, block, tail)
        /\ Blank(call.text) <=> Contains(call.result, <<"(", "n", "o", "n", "e", ")">>)
        /\ ~Blank(call.text) => Contains(call.result, <<":", "\n">> \o call.text \o <<"\n">>)
        /\ Len(call.result) >= Len(base) + Len(call.text) + Len(call.question)

\* build_prompt was given notes with text between whitespace
C11_Witness ==
  /\ call.fn = "build_prompt"
  /\ Len(call.text) = 2 /\ ~Blank(call.text) /\ IsSpace(call.text[1])
  /\ call.mode = "exam"

(***************************************************************************)
(* Line breaks converted one at a time: every CR-LF and every other LF     *)
(* becomes one "<br>", whatever stands next to it.                         *)
(***************************************************************************)
RECURSIVE ConvertSingly(_)
ConvertSingly(t) ==
  IF t = <<>> THEN <<>>
  ELSE IF Len(t) >= 2 /\ t[1] = "\r" /\ t[2] = "\n"
       THEN br \o ConvertSingly(SubSeq(t, 3, Len(t)))
  ELSE IF t[1] = "\n" THEN br \o ConvertSingly(Tail(t))
  ELSE <<t[1]>> \o ConvertSingly(Tail(t))

\* the text has two line breaks in a row, once CR-LF is read as LF
HasDoubleBreak(t) ==
  \E i \in 1..Len(t) : \E j \in {1, 2} : \E k \in {1, 2} :
    /\ MatchAt(t, IF j = 1 THEN <<"\n">> ELSE <<"\r", "\n">>, i)
    /\ MatchAt(t, IF k = 1 THEN <<"\n">> ELSE <<"\r", "\n">>, i + j)

(***************************************************************************)
(* C12.  As claimed: the output of format_html for a text with a double    *)
(* line break is not what converting its line breaks one at a time into    *)
(* line-break markers gives.                                               *)
(***************************************************************************)
C12_DoubleBreakNotTwoSingles ==
  (call.fn = "format_html" /\ HasDoubleBreak(call.text)) =>
    call.result # ConvertSingly(call.text)

(***************************************************************************)
(* C12, amended.  format_html gives "" for "", and otherwise reads CR-LF   *)
(* as LF, turns every double line break into "<br><br>" and every          *)
(* remaining line break into "<br>"; as "<br><br>" is two "<br>", the      *)
(* output is the text with its line breaks converted one at a time, for a  *)
(* double break too, and no line break is left in it.                      *)
(***************************************************************************)
C12_FormatHtml ==
  call.fn = "format_html" =>
    /\ call.text = <<>> => call.result = <<>>
    /\ call.result = ConvertSingly(call.text)
    /\ ~Contains(call.result, <<"\n">>)
    /\ call.text = <<"a", "\n", "\n", "a">> => call.result = <<"a">> \o brbr \o <<"a">>

\* a double break written as CR-LF then LF has been formatted into "<br><br>"
C12_Witness ==
  /\ call.fn = "format_html"
  /\ call.text = <<"a", "\r", "\n", "\n">>
  /\ call.result = <<"a">> \o br \o br

(***************************************************************************)
(* C13.  A successful external call whose response has no text, or an      *)
(* empty one, makes gen_with_retry return "" on that attempt: no wait, no  *)
(* further attempt, no exception; when it is the answer call, the request  *)
(* ends with an empty answer and an empty error.                           *)
(***************************************************************************)
\* the last external call succeeded and its response carried no text
EmptySuccess(obs) ==
  /\ obs # <<>>
  /\ obs[Len(obs)].ok
  /\ ~obs[Len(obs)].has_text \/ obs[Len(obs)].text = <<>>

C13_EmptyResponse ==
  \A r \in Requests :
    EmptySuccess(observed[r]) =>
      /\ pc[r] \in {"ocr_return", "answer_return", "compose", "done"}
      /\ ~exc[r].raised
      /\ GenCalls(r, frame[r].caller) = Len(observed[r])
      /\ Sleeps(r, frame[r].caller) = Len(observed[r]) - 1
      /\ pc[r] \in {"ocr_return", "answer_return"} => retval[r] = <<>>
      /\ pc[r] = "done" =>
           /\ frame[r].caller = "answer"
           /\ answer_html[r] = <<>>
           /\ error[r] = <<>>
           /\ FormatCalls(r) = 1

\* the answer call failed once, then succeeded with a response that has no text
\* attribute, and the request has finished
C13_Witness ==
  \E r \in Requests :
    /\ pc[r] = "done"
    /\ Len(observed[r]) = 2
    /\ observed[r][2].ok /\ ~observed[r][2].has_text

(***************************************************************************)
(* C14.  The steps of a request run in the order extractor, transcriber,   *)
(* prompt builder, answer generation, formatter; the extractor and the     *)
(* transcriber run only for an attached document or image; a step starts   *)
(* only after every earlier applicable step has succeeded; each step runs  *)
(* at most once; the formatter runs only after a successful answer call.   *)
(***************************************************************************)
\* the place of an event in the pipeline
Rank(e) ==
  CASE e.ev = "extract" -> 1
    [] e.ev = "decode" -> 2
    [] e.ev \in {"generate", "sleep"} /\ e.caller = "ocr" -> 3
    [] e.ev = "compose" -> 4
    [] e.ev \in {"generate", "sleep"} /\ e.caller = "answer" -> 5
    [] e.ev = "format" -> 6
    [] OTHER -> 7

\* the call made for caller has returned a response
Succeeded(r, caller) ==
  /\ GenCalls(r, caller) >= 1
  /\ Sleeps(r, caller) = GenCalls(r, caller) - 1
  /\ ~(pc[r] \in {"gen_call", "gen_sleep"} /\ frame[r].caller = caller)

C14_PipelineOrder ==
  \A r \in Requests :
    LET tr == trace[r] IN
    \* ranks never decrease along the trace, so comparing neighbours compares all pairs
    /\ \A i \in 1..(Len(tr) - 1) :
         /\ Rank(tr[i]) <= Rank(tr[i + 1])
         /\ Rank(tr[i]) \in {1, 2, 4, 6, 7} => Rank(tr[i]) < Rank(tr[i + 1])
    /\ ExtractCalls(r) = (IF Attached(request[r].pdf) /\ pc[r] \notin {"idle", "start", "pdf"}
                             /\ ~Blank(RawQuestion(r)) THEN 1 ELSE 0)
    /\ DecodeCalls(r) > 0 =>
         /\ Attached(request[r].image)
         /\ Attached(request[r].pdf) => ExtractCalls(r) = 1 /\ ~Unreadable(request[r].pdf)
    /\ GenCalls(r, "ocr") > 0 => DecodeCalls(r) = 1 /\ request[r].image.decodable
    /\ ComposeCalls(r) > 0 =>
         /\ Attached(request[r].pdf) => ExtractCalls(r) = 1 /\ ~Unreadable(request[r].pdf)
         /\ Attached(request[r].image) => Succeeded(r, "ocr")
         /\ ~Attached(request[r].image) => DecodeCalls(r) = 0 /\ GenCalls(r, "ocr") = 0
    /\ GenCalls(r, "answer") > 0 => ComposeCalls(r) = 1
    /\ FormatCalls(r) > 0 => Succeeded(r, "answer")

\* a finished request that ran all five steps, with a retry in both calls
C14_Witness ==
  \E r \in Requests :
    /\ pc[r] = "done"
    /\ ExtractCalls(r) = 1 /\ DecodeCalls(r) = 1 /\ ComposeCalls(r) = 1 /\ FormatCalls(r) = 1
    /\ GenCalls(r, "ocr") = 2 /\ GenCalls(r, "answer") = 2

(***************************************************************************)
(* C15.  A request with a non-blank question, mode "explain" and no file   *)
(* chosen never calls the extractor or the transcriber; the prompt handed  *)
(* to gen_with_retry contains "Mode: EXPLAIN" and the "(none)" notes       *)
(* placeholder; and when the first external call succeeds the generation   *)
(* capability is called exactly once in the whole request.                 *)
(***************************************************************************)
\* no file was chosen: the file part is absent or comes without a filename
NoFileChosen(file) == ~file.present \/ file.filename = <<>>

TotalGenCalls(r) == GenCalls(r, "ocr") + GenCalls(r, "answer")

C15_ExplainWithoutFiles ==
  \A r \in Requests :
    (IsPost(r) /\ pc[r] # "start" /\ ~Blank(RawQuestion(r)) /\ mode[r] = "explain"
       /\ NoFileChosen(request[r].pdf) /\ NoFileChosen(request[r].image)) =>
      /\ ExtractCalls(r) = 0
      /\ DecodeCalls(r) = 0
      /\ GenCalls(r, "ocr") = 0
      /\ pc[r] \notin {"pdf", "image", "compose"} =>
           /\ frame[r].caller = "answer"
           /\ ~frame[r].contents.image
           /\ frame[r].model = config.TEXT_MODEL
           /\ Contains(frame[r].contents.text,
                       <<"M", "o", "d", "e", ":", " ", "E", "X", "P", "L", "A", "I", "N">>)
           /\ Contains(frame[r].contents.text, <<"(", "n", "o", "n", "e", ")">>)
      /\ (observed[r] # <<>> /\ observed[r][1].ok) =>
           /\ TotalGenCalls(r) = 1
           /\ pc[r] \in {"answer_return", "done"}

\* such a request, sent with empty file parts, has finished after one successful call
C15_Witness ==
  \E r \in Requests :
    /\ IsPost(r) /\ pc[r] = "done" /\ mode[r] = "explain"
    /\ request[r].pdf.present /\ request[r].pdf.filename = <<>>
    /\ request[r].image.present /\ request[r].image.filename = <<>>
    /\ TotalGenCalls(r) = 1 /\ error[r] = <<>>

(***************************************************************************)
(* C16.  extract_pdf_text never raises.  When the document cannot be       *)
(* opened or a page fails, it gives "", whatever the earlier pages held.   *)
(* Otherwise it gives the texts of the pages, each without its leading and *)
(* trailing whitespace, the empty ones dropped, in page order and joined   *)
(* by a blank line; this is "" exactly when every page is blank.           *)
(***************************************************************************)
\* s without its leading and trailing whitespace
Trim(s) ==
  IF Blank(s) THEN <<>>
  ELSE LET inked == {k \in 1..Len(s) : ~IsSpace(s[k])}
           first == CHOOSE k \in inked : \A j \in inked : k <= j
           last  == CHOOSE k \in inked : \A j \in inked : k >= j
       IN  SubSeq(s, first, last)

PageText(page) == IF page.has_text THEN page.text ELSE <<>>

\* the trimmed texts of the non-blank pages among the first n
RECURSIVE Kept(_, _)
Kept(pages, n) ==
  IF n = 0 THEN <<>>
  ELSE Kept(pages, n - 1) \o
       (IF Blank(PageText(pages[n])) THEN <<>> ELSE <<Trim(PageText(pages[n]))>>)

\* the first n parts, a blank line between any two
RECURSIVE BlankLineJoined(_, _)
BlankLineJoined(parts, n) ==
  IF n = 0 THEN <<>>
  ELSE IF n = 1 THEN parts[1]
  ELSE BlankLineJoined(parts, n - 1) \o <<"\n", "\n">> \o parts[n]

ParseFails(pdf_file) ==
  ~pdf_file.open_ok \/ \E k \in 1..Len(pdf_file.pages) : pdf_file.pages[k].raises

C16_ExtractPdfText ==
  call.fn = "extract_pdf_text" =>
    LET f    == call.pdf_file
        kept == Kept(f.pages, Len(f.pages))
    IN  /\ ~call.raised
        /\ ParseFails(f) => call.result = <<>>
        /\ ~ParseFails(f) =>
             /\ call.result = BlankLineJoined(kept, Len(kept))
             /\ call.result = <<>> <=>
                  \A k \in 1..Len(f.pages) : Blank(PageText(f.pages[k]))

\* the second page failed after the first had given text
C16_Witness ==
  /\ call.fn = "extract_pdf_text"
  /\ call.pdf_file.open_ok /\ Len(call.pdf_file.pages) = 2
  /\ ~call.pdf_file.pages[1].raises /\ ~Blank(PageText(call.pdf_file.pages[1]))
  /\ call.pdf_file.pages[2].raises
  /\ call.result = <<>>

(***************************************************************************)
(* C17.  Requests handled at the same time do not touch each other: every  *)
(* step changes the state of one request only and leaves the configuration *)
(* alone, and what a request holds (mode, question, notes, prompt, retry   *)
(* counter, last failure, result) is a function of its own inputs and of   *)
(* the responses to its own calls.                                         *)
(***************************************************************************)
\* all that belongs to request s
Local(s) ==
  <<request[s], pc[s], mode[s], question[s], notes_text[s], prompt[s], answer_html[s],
    error[s], frame[s], retval[s], exc[s], observed[s], trace[s], slept[s]>>

IsolatedStep ==
  /\ config' = config
  /\ request' = request
  /\ \E r \in Requests : \A s \in Requests \ {r} : Local(s)' = Local(s)

\* the messages of the failures among the responses to the request's own calls
OwnFailures(r) ==
  SelectSeq(observed[r], LAMBDA o : ~o.ok)

OwnState(r) ==
  /\ pc[r] \notin {"idle", "start"} /\ IsPost(r) =>
       /\ mode[r] = (IF request[r].form_mode.present THEN request[r].form_mode.value
                     ELSE "explain")
       /\ question[r] = Trim(RawQuestion(r))
  /\ pc[r] = "compose" =>
       notes_text[r] = BlankLineJoined(
         SelectSeq(<<DocumentText(r), TranscribedText(r)>>, LAMBDA t : t # <<>>),
         Len(SelectSeq(<<DocumentText(r), TranscribedText(r)>>, LAMBDA t : t # <<>>)))
  /\ ComposeCalls(r) = 1 =>
       prompt[r] = build_prompt(mode[r], question[r], notes_text[r])
  /\ frame[r].caller # "" =>
       /\ frame[r].i = Sleeps(r, frame[r].caller)
       /\ frame[r].last_err.set = (OwnFailures(r) # <<>>)
       /\ OwnFailures(r) # <<>> =>
            frame[r].last_err.msg = OwnFailures(r)[Len(OwnFailures(r))].err
  /\ (pc[r] = "done" /\ frame[r].caller = "answer") =>
       IF AllFail(observed[r])
       THEN /\ error[r] = msg_gemini_prefix \o observed[r][Len(observed[r])].err
            /\ answer_html[r] = <<>>
       ELSE /\ error[r] = <<>>
            /\ answer_html[r] = ConvertSingly(ResponseText(observed[r][Len(observed[r])]))
  /\ (pc[r] = "done" /\ frame[r].caller = "ocr") =>
       /\ error[r] = msg_ocr_prefix \o observed[r][Len(observed[r])].err
       /\ answer_html[r] = <<>>
  /\ slept[r] = Sum(SleepUnits(trace[r], "ocr")) + Sum(SleepUnits(trace[r], "answer"))

C17_RequestsIsolated ==
  /\ [][IsolatedStep]_vars
  /\ [](\A r \in Requests : OwnState(r))

\* both requests are inside their retry loops, with different retry counters and
\* different last failures
C17_Witness ==
  /\ pc["r1"] = "gen_sleep" /\ pc["r2"] = "gen_sleep"
  /\ frame["r1"].i # frame["r2"].i
  /\ frame["r1"].last_err.msg # frame["r2"].last_err.msg
  /\ frame["r1"].caller # frame["r2"].caller

(***************************************************************************)
(* C18.  Every request that has started ends, with an answer or an error;  *)
(* it calls the generation service at most 3 times for the transcription   *)
(* and at most 3 times for the answer, 6 in all, and every transcription   *)
(* attempt comes before every answer attempt.                              *)
(***************************************************************************)
\* the positions of the trace where generate was called for `caller`
AttemptsAt(r, caller) ==
  {n \in 1..Len(trace[r]) : trace[r][n].ev = "generate" /\ trace[r][n].caller = caller}

WithinQuota(r) ==
  /\ GenCalls(r, "ocr") <= tries
  /\ GenCalls(r, "answer") <= tries
  /\ TotalGenCalls(r) <= 2 * tries
  /\ \A m \in AttemptsAt(r, "ocr") : \A n \in AttemptsAt(r, "answer") : m < n

C18_TerminatesWithinQuota ==
  /\ \A r \in Requests : (pc[r] = "start") ~> (pc[r] = "done")
  /\ [](\A r \in Requests : WithinQuota(r))

\* a request that ended after using the whole quota: three transcription attempts
\* and three answer attempts
C18_Witness ==
  \E r \in Requests :
    /\ pc[r] = "done"
    /\ GenCalls(r, "ocr") = tries
    /\ GenCalls(r, "answer") = tries
    /\ error[r] # <<>>

(***************************************************************************)
(* C19.  A transcription that succeeds with empty or whitespace-only text  *)
(* is not an error: the notes stay what the document gave, the request     *)
(* goes on to build_prompt and to the answer call, and with no document    *)
(* text the prompt carries the "(none)" placeholder.                       *)
(***************************************************************************)
\* the transcription has returned and added nothing to the notes
BlankTranscription(r) ==
  /\ Succeeded(r, "ocr")
  /\ pc[r] # "ocr_return"
  /\ notes_text[r] = DocumentText(r)

C19_BlankTranscription ==
  \A r \in Requests :
    /\ (pc[r] = "compose" /\ GenCalls(r, "ocr") > 0 /\ TranscribedText(r) = <<>>) =>
         /\ BlankTranscription(r)
         /\ error[r] = <<>>
         /\ ~exc[r].raised
    /\ BlankTranscription(r) =>
         /\ pc[r] \in {"compose", "gen_call", "gen_sleep", "gen_raise", "answer_return",
                       "except_gen", "done"}
         /\ pc[r] # "compose" =>
              /\ ComposeCalls(r) = 1
              /\ frame[r].caller = "answer"
              /\ prompt[r] = build_prompt(mode[r], question[r], DocumentText(r))
              /\ DocumentText(r) = <<>> => Contains(prompt[r], notes_none)
         /\ pc[r] = "done" =>
              /\ GenCalls(r, "answer") >= 1
              /\ ~StartsWith(error[r], msg_ocr_prefix)
              /\ error[r] # msg_scanned

\* a whitespace-only transcription, no document: the answer call is about to be made
\* with the placeholder in the prompt
C19_Witness ==
  \E r \in Requests :
    /\ pc[r] = "gen_call"
    /\ frame[r].caller = "answer"
    /\ GenCalls(r, "ocr") = 2
    /\ retval[r] = <<"\n">>
    /\ ~Attached(request[r].pdf)
    /\ notes_text[r] = <<>>
    /\ Contains(prompt[r], notes_none)

====
